---- MODULE Spec2Model ----
(***************************************************************************)
(* display_7seg: the error store of DisplayNode (display_node.py) and the  *)
(* render loop that cycles the active error codes over a 4-digit 7-segment *)
(* display (mydisplay.py).                                                 *)
(*                                                                         *)
(* Python strings are modelled as sequences of one-character strings, so   *)
(* that strip, split, lower, rjust and slicing are computed character by   *)
(* character.  Durations are in tenths of a second.                        *)
(***************************************************************************)
EXTENDS Integers, Sequences, FiniteSets, TLC

\* ---------------------------------------------------------------- bounds
\* Number of threads that may run listener_callback at the same time.
NumWriters == 2
\* Number of messages delivered on the sensor_errors topic in one run.
MaxReplaces == 2
\* Length of the longest error list the producer publishes.
MaxFaults == 10

\* ------------------------------------------------------ string primitives
Whitespace == {" ", "\t", "\n", "\r"}

UpperCase == <<"A", "B", "C", "D", "E", "F", "G", "H", "I", "J", "K", "L", "M", "N", "O", "P", "Q", "R", "S", "T", "U", "V", "W", "X", "Y", "Z">>

LowerCase == <<"a", "b", "c", "d", "e", "f", "g", "h", "i", "j", "k", "l", "m", "n", "o", "p", "q", "r", "s", "t", "u", "v", "w", "x", "y", "z">>

DecimalDigits == <<"0", "1", "2", "3", "4", "5", "6", "7", "8", "9">>

\* The lower-case letter of each upper-case letter
ToLower ==
    [c \in {UpperCase[i] : i \in 1..Len(UpperCase)} |->
        LowerCase[CHOOSE i \in 1..Len(UpperCase) : UpperCase[i] = c]]

\* str.lower() on one character
LowerChar(c) == IF c \in DOMAIN ToLower THEN ToLower[c] ELSE c

\* str.lower()
Lower(s) == [i \in 1..Len(s) |-> LowerChar(s[i])]

RECURSIVE LStrip(_)
LStrip(s) ==
    IF s # <<>> /\ Head(s) \in Whitespace THEN LStrip(Tail(s)) ELSE s

RECURSIVE RStrip(_)
RStrip(s) ==
    IF s # <<>> /\ s[Len(s)] \in Whitespace
    THEN RStrip(SubSeq(s, 1, Len(s) - 1))
    ELSE s

\* str.strip()
Strip(s) == RStrip(LStrip(s))

\* str.split(sep) for a one-character separator: "" gives [""]
RECURSIVE Split(_, _)
Split(s, sep) ==
    IF \E i \in 1..Len(s) : s[i] = sep
    THEN LET k == CHOOSE i \in 1..Len(s) :
                     s[i] = sep /\ \A j \in 1..(i - 1) : s[j] # sep
         IN  <<SubSeq(s, 1, k - 1)>> \o Split(SubSeq(s, k + 1, Len(s)), sep)
    ELSE <<s>>

\* str(n) for a natural number
RECURSIVE Str(_)
Str(n) ==
    IF n < 10 THEN <<DecimalDigits[n + 1]>>
    ELSE Str(n \div 10) \o <<DecimalDigits[(n % 10) + 1]>>

\* s[:k]
Prefix(s, k) == SubSeq(s, 1, IF k < Len(s) THEN k ELSE Len(s))

\* s[-k:]
Suffix(s, k) == SubSeq(s, IF Len(s) > k THEN Len(s) - k + 1 ELSE 1, Len(s))

\* s.rjust(width, fill)
RJust(s, width, fill) == [i \in 1..(width - Len(s)) |-> fill] \o s

\* ------------------------------------------------------------ mydisplay.py
TEXT_TO_NUMERIC_ERROR ==
    <<"l", "i", "d", "a", "r", "_", "c", "o", "m">> :>
        <<"1", "0", "1">> @@
    <<"l", "i", "d", "a", "r", "_", "f", "a", "i", "l">> :>
        <<"2", "0", "1">> @@
    <<"e", "m", "i", "_", "c", "o", "m">> :>
        <<"1", "0", "2">> @@
    <<"e", "m", "i", "_", "f", "a", "i", "l">> :>
        <<"2", "0", "2">> @@
    <<"i", "m", "u", "_", "c", "o", "m">> :>
        <<"1", "0", "3">> @@
    <<"i", "m", "u", "_", "f", "a", "i", "l">> :>
        <<"2", "0", "3">> @@
    <<"r", "a", "s", "p", "b", "e", "r", "r", "y", "_", "c", "o", "m">> :>
        <<"1", "0", "4">> @@
    <<"r", "a", "s", "p", "b", "e", "r", "r", "y", "_", "f", "a", "i", "l">> :>
        <<"2", "0", "4">> @@
    <<"c", "a", "m", "e", "r", "a", "_", "c", "o", "m">> :>
        <<"1", "0", "5">> @@
    <<"c", "a", "m", "e", "r", "a", "_", "f", "a", "i", "l">> :>
        <<"2", "0", "5">> @@
    <<"i", "p", "_", "m", "e", "s", "h", "_", "c", "o", "m">> :>
        <<"1", "0", "6">> @@
    <<"i", "p", "_", "m", "e", "s", "h", "_", "f", "a", "i", "l">> :>
        <<"2", "0", "6">> @@
    <<"g", "p", "s", "_", "c", "o", "m">> :>
        <<"1", "0", "7">> @@
    <<"g", "p", "s", "_", "f", "a", "i", "l">> :>
        <<"2", "0", "7">> @@
    <<"g", "e", "n", "e", "r", "a", "l", "_", "f", "a", "i", "l">> :>
        <<"9", "9", "9">>

\* dict.get(key, default) on the table above
TableGet(key, default) ==
    IF key \in DOMAIN TEXT_TO_NUMERIC_ERROR
    THEN TEXT_TO_NUMERIC_ERROR[key]
    ELSE default

\* Seg7x4.print: the four characters handed to the digits
PrintText(text) == Suffix(RJust(text, 4, "0"), 4)

\* Seg7x4.__init__: no digit has been set, every segment is dark
BlankDigits == <<" ", " ", " ", " ">>

\* Changed NoErrorsText: the empty list is rendered like any other count
NoErrorsDashes == <<"0", "-", "-", "-">>

\* show_no_errors: the text it prints
NoErrorsText == <<"0", "0", "0", "0">>

\* -------------------------------------------------------- display_node.py
loop_start_code == <<"-", "-", "-">>
loop_start_delay == 3
error_delay == 10

\* Changed ParseErrors: the tokens are kept as split, without e.strip()
ParseErrorsUntrimmed(data) ==
    LET text  == Strip(data)
        parts == Split(text, ",")
        NonBlank(e) == Strip(e) # <<>>
    IN  SelectSeq(parts, NonBlank)

\* listener_callback: msg.data -> errors
ParseErrors(data) ==
    LET text  == Strip(data)
        parts == Split(text, ",")
        NonEmpty(e) == e # <<>>
    IN  SelectSeq([i \in 1..Len(parts) |-> Strip(parts[i])], NonEmpty)

\* Changed StoreList: an empty update stores the general failure
\* (self.active_errors = errors.copy() or ["general_fail"])
StoreListDefault(old, new) ==
    IF new = <<>>
    THEN << <<"g", "e", "n", "e", "r", "a", "l", "_", "f", "a", "i", "l">> >>
    ELSE new

\* Changed StoreList: the new errors are added to the stored ones
\* (self.active_errors += errors)
StoreListExtend(old, new) == old \o new

\* Changed StoreList: repeated identifiers are dropped, first occurrence kept
\* (list(dict.fromkeys(errors)))
StoreListDedup(old, new) ==
    LET Fresh(i) == \A j \in 1..(i - 1) : new[j] # new[i]
        Keep == {i \in 1..Len(new) : Fresh(i)}
        RECURSIVE Pick(_)
        Pick(i) ==
            IF i > Len(new) THEN <<>>
            ELSE (IF i \in Keep THEN <<new[i]>> ELSE <<>>) \o Pick(i + 1)
    IN  Pick(1)

\* listener_callback: self.active_errors = errors.copy()
StoreList(old, new) == new

\* display_loop: errors = self.active_errors.copy()
Snapshot(stored) == stored

\* Changed CountDigit: the last character of the count (str(len(errors))[-1:])
CountDigitLast(errs) == Suffix(Str(Len(errs)), 1)

\* Changed CountDigit: the whole count, without [:1]
CountDigitWhole(errs) == Str(Len(errs))

\* display_loop: num_errors = str(len(errors))[:1]
CountDigit(errs) == Prefix(Str(Len(errs)), 1)

\* Changed Lookup: the key is looked up as received, without .lower()
LookupExact(code_text) == TableGet(code_text, <<"9", "9", "9">>)

\* display_loop: code = TEXT_TO_NUMERIC_ERROR.get(code_text.lower(), "999")
Lookup(code_text) == TableGet(Lower(code_text), <<"9", "9", "9">>)

\* Changed FormatCode: padded to three characters but not cut to the last three
FormatCodeUncut(code) == RJust(code, 3, "0")

\* display_loop: code_str = str(code).rjust(3, "0")[-3:]
FormatCode(code) == Suffix(RJust(code, 3, "0"), 3)

\* ------------------------------------------------------------- the threads
\* Threads running listener_callback (the executor started by main)
Writers == {<<"listener_callback", i>> : i \in 1..NumWriters}
\* The thread running display_loop
Cycler == <<"display_loop", 1>>
\* The lock is not held
Unlocked == <<"unlocked", 1>>

\* Owner of a list object: the registry's own (the [] of __init__ or the
\* result of a .copy()), as opposed to a caller's local list.
OwnObject == <<"active_errors", 1>>

\* listener_callback: the object stored by self.active_errors = errors.copy()
StoreObject(w) == OwnObject

\* ------------------------------------------------- payloads on the topic
RECURSIVE ManyFaults(_)
ManyFaults(n) ==
    IF n <= 1 THEN <<"x">> ELSE <<"x", ",">> \o ManyFaults(n - 1)

TwoFaults ==
    <<"l", "i", "d", "a", "r", "_", "f", "a", "i", "l", ",", " ",
      "g", "p", "s", "_", "f", "a", "i", "l">>

\* "GPS_FAIL,,gps_fail , gps_fail": upper case, an empty token, a repetition
ThreeFaults ==
    <<"G", "P", "S", "_", "F", "A", "I", "L", ",", ",",
      "g", "p", "s", "_", "f", "a", "i", "l", " ", ",", " ",
      "g", "p", "s", "_", "f", "a", "i", "l">>

\* Everyday traffic: no errors, stray separators, a few errors
Messages == { <<>>, <<" ", ",", " ">>, TwoFaults, ThreeFaults }

\* Traffic with long lists, around the longest one
LongMessages == { <<>>, ManyFaults(MaxFaults - 1), ManyFaults(MaxFaults) }

\* ------------------------------------------------------------------ state
VARIABLES
    active_errors,  \* self.active_errors: the stored list
    active_obj,     \* which list object self.active_errors refers to
    lock,           \* self.lock: Unlocked or the thread holding it
    mainpc,         \* main thread: end of __init__, then spinning
    wpc,            \* listener_callback: position of each writer thread
    werrors,        \* listener_callback: the local errors of each writer
    cpc,            \* display_loop: position
    errors,         \* display_loop: the local snapshot
    num_errors,     \* display_loop: the count digit of this cycle
    idx,            \* display_loop: position of the for loop in errors
    code_str,       \* display_loop: the formatted code of the current error
    digits,         \* Seg7x4: the characters the four digits show
    colon,          \* Seg7x4._colon
    frames,         \* history: texts display_loop printed since its last read
    issued,         \* history: the arguments of the Replace calls so far
    nmsgs,          \* history: number of messages delivered
    version,        \* history: number of completed assignments
    lastArg,        \* history: argument of the last completed assignment
    seenVer,        \* history: version the snapshot was read at
    pending,        \* history: a Replace returned since the last read
    waited,         \* history: time slept since that Replace returned
    numeric_codes,  \* show_multiple_text_errors: the codes of its list
    s_num_errors,   \* show_multiple_text_errors: its count digit
    s_pc,           \* show_multiple_text_errors: position of its loop thread
    s_idx,          \* show_multiple_text_errors: position of its for loop
    s_code_str,     \* show_multiple_text_errors: the formatted code
    s_digits,       \* the Seg7x4 of the process running display_test.py
    s_colon,        \* its _colon
    s_frames,       \* history: texts printed in this pass of its while loop
    fn,             \* a function of the two files applied on its own
    input,          \* its argument
    output          \* its result, once applied

nodevars == <<active_errors, active_obj, lock, mainpc, wpc, werrors, cpc,
              errors, num_errors, idx, code_str, digits, colon, frames,
              issued, nmsgs, version, lastArg, seenVer, pending, waited>>

\* The standalone loop of display_test.py
script == <<numeric_codes, s_num_errors, s_pc, s_idx, s_code_str, s_digits,
            s_colon, s_frames>>

\* A function applied on its own
call == <<fn, input, output>>

\* What the node leaves alone
aside == <<script, call>>

vars == <<nodevars, script, call>>

registry == <<active_errors, active_obj, version, lastArg>>
writers  == <<wpc, werrors, issued, nmsgs>>
cycle    == <<errors, num_errors, idx, code_str, seenVer>>
screen   == <<digits, colon>>
clock    == <<pending, waited>>

\* DisplayNode.__init__ up to the start of the display thread; the module
\* level Seg7x4() has run.
NodeInit ==
    /\ active_errors = <<>>
    /\ active_obj = OwnObject
    /\ lock = Unlocked
    /\ mainpc = "show_no_errors"
    /\ wpc = [w \in Writers |-> "idle"]
    /\ werrors = [w \in Writers |-> <<>>]
    /\ cpc = "lock"
    /\ errors = <<>>
    /\ num_errors = <<>>
    /\ idx = 0
    /\ code_str = <<>>
    /\ digits = BlankDigits
    /\ colon = FALSE
    /\ frames = <<>>
    /\ issued = {}
    /\ nmsgs = 0
    /\ version = 0
    /\ lastArg = <<>>
    /\ seenVer = 0
    /\ pending = FALSE
    /\ waited = 0

\* show_multiple_text_errors has not been called
ScriptOff ==
    /\ numeric_codes = <<>>
    /\ s_num_errors = <<>>
    /\ s_pc = "off"
    /\ s_idx = 0
    /\ s_code_str = <<>>
    /\ s_digits = BlankDigits
    /\ s_colon = FALSE
    /\ s_frames = <<>>

\* No function is applied on its own
CallOff ==
    /\ fn = "none"
    /\ input = <<>>
    /\ output = <<>>

\* The node alone
Init == NodeInit /\ ScriptOff /\ CallOff

\* time.sleep(d): the time a returned Replace has been waiting for a read
Sleep(d) ==
    /\ waited' = IF pending THEN waited + d ELSE waited
    /\ UNCHANGED pending

\* --------------------------------------------------------- the main thread
\* __init__: show_no_errors(display), display.print("0000")
MainPrint ==
    /\ mainpc = "show_no_errors"
    /\ digits' = PrintText(NoErrorsText)
    /\ mainpc' = "colon"
    /\ UNCHANGED <<registry, lock, writers, cpc, cycle, colon, frames, clock>>
    /\ UNCHANGED aside

\* Changed MainColon: the constructor switches the colon on
\* (display.colon = True)
MainColonOn ==
    /\ mainpc = "colon"
    /\ colon' = TRUE
    /\ mainpc' = "spin"
    /\ UNCHANGED <<registry, lock, writers, cpc, cycle, digits, frames, clock>>
    /\ UNCHANGED aside

\* __init__: show_no_errors(display), display.colon = False
MainColon ==
    /\ mainpc = "colon"
    /\ colon' = FALSE
    /\ mainpc' = "spin"
    /\ UNCHANGED <<registry, lock, writers, cpc, cycle, digits, frames, clock>>
    /\ UNCHANGED aside

\* ------------------------------------------------------- listener_callback
\* A message arrives: text = msg.data.strip(); errors = [...]
Receive(w, data) ==
    /\ mainpc = "spin"
    /\ wpc[w] = "idle"
    /\ nmsgs < MaxReplaces
    /\ werrors' = [werrors EXCEPT ![w] = ParseErrors(data)]
    /\ issued' = issued \cup {ParseErrors(data)}
    /\ nmsgs' = nmsgs + 1
    /\ wpc' = [wpc EXCEPT ![w] = "lock"]
    /\ UNCHANGED <<registry, lock, mainpc, cpc, cycle, screen, frames, clock>>
    /\ UNCHANGED aside

\* with self.lock: (enter)
WAcquire(w) ==
    /\ wpc[w] = "lock"
    /\ lock = Unlocked
    /\ lock' = w
    /\ wpc' = [wpc EXCEPT ![w] = "assign"]
    /\ UNCHANGED <<registry, mainpc, werrors, issued, nmsgs, cpc, cycle,
                   screen, frames, clock>>
    /\ UNCHANGED aside

\* self.active_errors = errors.copy()
WAssign(w) ==
    /\ wpc[w] = "assign"
    /\ active_errors' = StoreList(active_errors, werrors[w])
    /\ active_obj' = StoreObject(w)
    /\ version' = version + 1
    /\ lastArg' = werrors[w]
    /\ wpc' = [wpc EXCEPT ![w] = "unlock"]
    /\ UNCHANGED <<lock, mainpc, werrors, issued, nmsgs, cpc, cycle, screen,
                   frames, clock>>
    /\ UNCHANGED aside

\* Changed Released: the lock is acquired without a with block and kept
ReleasedNever(t) == t

\* The lock after a with block of thread t ends
Released(t) == Unlocked

\* with self.lock: (exit); the callback returns
WRelease(w) ==
    /\ wpc[w] = "unlock"
    /\ lock' = Released(w)
    /\ wpc' = [wpc EXCEPT ![w] = "idle"]
    /\ pending' = TRUE
    /\ waited' = IF pending THEN waited ELSE 0
    /\ UNCHANGED <<registry, mainpc, werrors, issued, nmsgs, cpc, cycle,
                   screen, frames>>
    /\ UNCHANGED aside

\* ------------------------------------------------------------ display_loop
\* time.sleep(error_delay) after show_no_errors
IdleHold == error_delay
\* Changed StartHold: the loop-start frame is held as long as an error frame
StartHoldLong == error_delay

\* time.sleep(loop_start_delay) after the loop-start frame
StartHold == loop_start_delay
\* time.sleep(error_delay) after an error frame
ErrorHold == error_delay

\* show_no_errors: display.colon = False
NoErrorsColon == FALSE
\* Changed FrameColon: display.colon = True
FrameColonOn == TRUE

\* display_loop: display.colon = False
FrameColon == FALSE

\* display.print(text) called by display_loop
Show(text) ==
    /\ digits' = PrintText(text)
    /\ frames' = Append(frames, text)

\* with self.lock: (enter)
CAcquire ==
    /\ cpc = "lock"
    /\ lock = Unlocked
    /\ lock' = Cycler
    /\ cpc' = "copy"
    /\ UNCHANGED <<registry, mainpc, writers, cycle, screen, frames, clock>>
    /\ UNCHANGED aside

\* errors = self.active_errors.copy()
CCopy ==
    /\ cpc = "copy"
    /\ errors' = Snapshot(active_errors)
    /\ seenVer' = version
    /\ frames' = <<>>
    /\ pending' = FALSE
    /\ waited' = 0
    /\ cpc' = "unlock"
    /\ UNCHANGED <<registry, lock, mainpc, writers, num_errors, idx, code_str,
                   screen>>
    /\ UNCHANGED aside

\* Changed CRelease: the loop goes on without leaving the with block
CReleaseKept ==
    /\ cpc = "unlock"
    /\ cpc' = "check"
    /\ UNCHANGED <<registry, lock, mainpc, writers, cycle, screen, frames,
                   clock>>
    /\ UNCHANGED aside

\* with self.lock: (exit)
CRelease ==
    /\ cpc = "unlock"
    /\ lock' = Released(Cycler)
    /\ cpc' = "check"
    /\ UNCHANGED <<registry, mainpc, writers, cycle, screen, frames, clock>>
    /\ UNCHANGED aside

\* if not errors: ... else: num_errors = str(len(errors))[:1]
CCheck ==
    /\ cpc = "check"
    /\ IF errors = <<>>
       THEN /\ cpc' = "idle_print"
            /\ UNCHANGED <<num_errors, idx>>
       ELSE /\ num_errors' = CountDigit(errors)
            /\ idx' = 0
            /\ cpc' = "start_print"
    /\ UNCHANGED <<registry, lock, mainpc, writers, errors, code_str, seenVer,
                   screen, frames, clock>>
    /\ UNCHANGED aside

\* show_no_errors(display): display.print("0000")
CIdlePrint ==
    /\ cpc = "idle_print"
    /\ Show(NoErrorsText)
    /\ cpc' = "idle_colon"
    /\ UNCHANGED <<registry, lock, mainpc, writers, cycle, colon, clock>>
    /\ UNCHANGED aside

\* show_no_errors(display): display.colon = False
CIdleColon ==
    /\ cpc = "idle_colon"
    /\ colon' = NoErrorsColon
    /\ cpc' = "idle_sleep"
    /\ UNCHANGED <<registry, lock, mainpc, writers, cycle, digits, frames,
                   clock>>
    /\ UNCHANGED aside

\* Changed CIdleSleep: the loop is left after the Idle hold
\* (time.sleep(error_delay); break)
CIdleSleepBreak ==
    /\ cpc = "idle_sleep"
    /\ Sleep(IdleHold)
    /\ cpc' = "return"
    /\ UNCHANGED <<registry, lock, mainpc, writers, cycle, screen, frames>>
    /\ UNCHANGED aside

\* time.sleep(error_delay); continue
CIdleSleep ==
    /\ cpc = "idle_sleep"
    /\ Sleep(IdleHold)
    /\ cpc' = "lock"
    /\ UNCHANGED <<registry, lock, mainpc, writers, cycle, screen, frames>>
    /\ UNCHANGED aside

\* display.print(num_errors + loop_start_code)
CStartPrint ==
    /\ cpc = "start_print"
    /\ Show(num_errors \o loop_start_code)
    /\ cpc' = "start_colon"
    /\ UNCHANGED <<registry, lock, mainpc, writers, cycle, colon, clock>>
    /\ UNCHANGED aside

\* display.colon = False
CStartColon ==
    /\ cpc = "start_colon"
    /\ colon' = FrameColon
    /\ cpc' = "start_sleep"
    /\ UNCHANGED <<registry, lock, mainpc, writers, cycle, digits, frames,
                   clock>>
    /\ UNCHANGED aside

\* time.sleep(loop_start_delay)
CStartSleep ==
    /\ cpc = "start_sleep"
    /\ Sleep(StartHold)
    /\ cpc' = "for"
    /\ UNCHANGED <<registry, lock, mainpc, writers, cycle, screen, frames>>
    /\ UNCHANGED aside

\* Changed CFor: the loop runs over the stored list, not over its copy
\* (for code_text in self.active_errors)
CForLive ==
    /\ cpc = "for"
    /\ IF idx < Len(active_errors)
       THEN /\ idx' = idx + 1
            /\ code_str' = FormatCode(Lookup(active_errors[idx + 1]))
            /\ cpc' = "err_print"
       ELSE /\ cpc' = "lock"
            /\ UNCHANGED <<idx, code_str>>
    /\ UNCHANGED <<registry, lock, mainpc, writers, errors, num_errors,
                   seenVer, screen, frames, clock>>
    /\ UNCHANGED aside

\* for code_text in errors: code = ...; code_str = ...   (or the loop ends)
CFor ==
    /\ cpc = "for"
    /\ IF idx < Len(errors)
       THEN /\ idx' = idx + 1
            /\ code_str' = FormatCode(Lookup(errors[idx + 1]))
            /\ cpc' = "err_print"
       ELSE /\ cpc' = "lock"
            /\ UNCHANGED <<idx, code_str>>
    /\ UNCHANGED <<registry, lock, mainpc, writers, errors, num_errors,
                   seenVer, screen, frames, clock>>
    /\ UNCHANGED aside

\* display.print(num_errors + code_str)
CErrPrint ==
    /\ cpc = "err_print"
    /\ Show(num_errors \o code_str)
    /\ cpc' = "err_colon"
    /\ UNCHANGED <<registry, lock, mainpc, writers, cycle, colon, clock>>
    /\ UNCHANGED aside

\* display.colon = False
CErrColon ==
    /\ cpc = "err_colon"
    /\ colon' = FrameColon
    /\ cpc' = "err_sleep"
    /\ UNCHANGED <<registry, lock, mainpc, writers, cycle, digits, frames,
                   clock>>
    /\ UNCHANGED aside

\* Changed CErrSleep: the for loop is left after the first error
CErrSleepBreak ==
    /\ cpc = "err_sleep"
    /\ Sleep(ErrorHold)
    /\ cpc' = "lock"
    /\ UNCHANGED <<registry, lock, mainpc, writers, cycle, screen, frames>>
    /\ UNCHANGED aside

\* time.sleep(error_delay)
CErrSleep ==
    /\ cpc = "err_sleep"
    /\ Sleep(ErrorHold)
    /\ cpc' = "for"
    /\ UNCHANGED <<registry, lock, mainpc, writers, cycle, screen, frames>>
    /\ UNCHANGED aside

\* ---------------------------------------------------------- specification
CyclerStep ==
    \/ CAcquire
    \/ CCopy
    \/ CRelease
    \/ CCheck
    \/ CIdlePrint
    \/ CIdleColon
    \/ CIdleSleep
    \/ CStartPrint
    \/ CStartColon
    \/ CStartSleep
    \/ CFor
    \/ CErrPrint
    \/ CErrColon
    \/ CErrSleep

\* One step of the node when the topic carries the payloads of M
Step(M) ==
    \/ MainPrint
    \/ MainColon
    \/ \E w \in Writers, data \in M : Receive(w, data)
    \/ \E w \in Writers : WAcquire(w)
    \/ \E w \in Writers : WAssign(w)
    \/ \E w \in Writers : WRelease(w)
    \/ CyclerStep

Next == Step(Messages)

Spec == Init /\ [][Next]_vars

LongNext == Step(LongMessages)

\* The node under long error lists
LongSpec == Init /\ [][LongNext]_vars

\* Scheduling: every thread that can run does run, a thread blocked on the
\* lock gets it once it is released often enough (the render loop sleeps
\* between two acquisitions); the arrival of messages is not forced.
Fairness ==
    /\ WF_vars(MainPrint \/ MainColon)
    /\ WF_vars(CyclerStep)
    /\ \A w \in Writers :
          /\ SF_vars(WAcquire(w))
          /\ WF_vars(WAssign(w))
          /\ WF_vars(WRelease(w))

FairSpec == Spec /\ Fairness

\* ------------------------------------------------ functions on their own
\* Upper-case form of a string (to build inputs)
UpperOf(s) ==
    [i \in 1..Len(s) |->
        IF \E j \in 1..Len(LowerCase) : LowerCase[j] = s[i]
        THEN UpperCase[CHOOSE j \in 1..Len(LowerCase) : LowerCase[j] = s[i]]
        ELSE s[i]]

\* Capitalised form of a string (to build inputs)
Capital(s) == IF s = <<>> THEN s ELSE UpperOf(<<Head(s)>>) \o Tail(s)

unknown_x == <<"u", "n", "k", "n", "o", "w", "n", "_", "x">>

\* Identifiers handed to the lookup: every key of the table as it is, in
\* upper case, capitalised, with a letter added and with one removed, and
\* an identifier that resembles no key.
Identifiers ==
    UNION { {k, UpperOf(k), Capital(k), k \o <<"x">>, Tail(k)} :
            k \in DOMAIN TEXT_TO_NUMERIC_ERROR } \cup {unknown_x, <<>>}

\* display_loop: code = TEXT_TO_NUMERIC_ERROR.get(code_text.lower(), "999")
ApplyLookup ==
    /\ fn = "lookup"
    /\ output = <<>>
    /\ output' = <<Lookup(input)>>
    /\ UNCHANGED <<nodevars, script, fn, input>>

LookupInit ==
    /\ NodeInit
    /\ ScriptOff
    /\ fn = "lookup"
    /\ input \in Identifiers
    /\ output = <<>>

\* The lookup applied to each identifier
LookupSpec == LookupInit /\ [][ApplyLookup]_vars

\* Largest code value handed to the formatting
MaxCode == 1234

\* Code values as str(code) gives them: the decimal numerals of 0..MaxCode
CodeTexts == { Str(n) : n \in 0..MaxCode }

\* display_loop: code_str = str(code).rjust(3, "0")[-3:]
ApplyFormat ==
    /\ fn = "format"
    /\ output = <<>>
    /\ output' = <<FormatCode(input)>>
    /\ UNCHANGED <<nodevars, script, fn, input>>

FormatInit ==
    /\ NodeInit
    /\ ScriptOff
    /\ fn = "format"
    /\ input \in CodeTexts
    /\ output = <<>>

\* The formatting applied to each code value
FormatSpec == FormatInit /\ [][ApplyFormat]_vars

\* Longest payload handed to the parsing
MaxPayloadLen == 5

\* Characters of the payloads: two letters of different case, a blank, a comma
PayloadChars == {"a", "B", " ", ","}

\* Payloads of at most MaxPayloadLen characters
Payloads == UNION { [1..n -> PayloadChars] : n \in 0..MaxPayloadLen }

\* listener_callback: data = msg.data.strip(); errors = [e.strip() for ...]
ApplyParse ==
    /\ fn = "parse"
    /\ output = <<>>
    /\ output' = <<ParseErrors(input)>>
    /\ UNCHANGED <<nodevars, script, fn, input>>

ParseInit ==
    /\ NodeInit
    /\ ScriptOff
    /\ fn = "parse"
    /\ input \in Payloads
    /\ output = <<>>

\* The parsing applied to each payload
ParseSpec == ParseInit /\ [][ApplyParse]_vars

\* ------------------------------------------ the node under every code
\* The identifiers of S joined by commas
RECURSIVE JoinAll(_)
JoinAll(S) ==
    IF S = {} THEN <<>>
    ELSE LET k == CHOOSE e \in S : TRUE
         IN  IF S = {k} THEN k ELSE k \o <<",">> \o JoinAll(S \ {k})

\* A payload naming every identifier of the table and an unknown one
AllFaults == JoinAll(DOMAIN TEXT_TO_NUMERIC_ERROR \cup {unknown_x})

\* Traffic that brings every code of the table to the display
TableMessages == { <<>>, AllFaults, ManyFaults(MaxFaults) }

TableNext == Step(TableMessages)

\* The node under lists that name every identifier of the table
TableSpec == Init /\ [][TableNext]_vars

\* ------------------------------------- mydisplay.show_multiple_text_errors
\* Changed ScriptCodes: the identifiers are looked up as given, without
\* .lower()
ScriptCodesExact(error_text_list) ==
    [i \in 1..Len(error_text_list) |->
        TableGet(error_text_list[i], <<"9", "9", "9">>)]

\* numeric_codes.append(TEXT_TO_NUMERIC_ERROR.get(txt.lower(), "999"))
ScriptCodes(error_text_list) ==
    [i \in 1..Len(error_text_list) |->
        TableGet(Lower(error_text_list[i]), <<"9", "9", "9">>)]

\* num_errors = str(len(numeric_codes))[:1]
ScriptCount(codes) == Prefix(Str(Len(codes)), 1)

\* code_str = str(code).rjust(3, "0")[-3:]
ScriptFormat(code) == Suffix(RJust(code, 3, "0"), 3)

\* The default of the parameter loop_start_code
s_loop_start_code == <<"-", "-", "-">>

\* display.print(text) called by the loop of show_multiple_text_errors
ScriptShow(text) ==
    /\ s_digits' = PrintText(text)
    /\ s_frames' = Append(s_frames, text)

\* show_multiple_text_errors(error_text_list, display): the codes and the
\* count are computed, the loop thread is started
SCall ==
    /\ s_pc = "call"
    /\ numeric_codes' = ScriptCodes(input)
    /\ s_num_errors' = ScriptCount(ScriptCodes(input))
    /\ s_pc' = "while"
    /\ UNCHANGED <<s_idx, s_code_str, s_digits, s_colon, s_frames>>
    /\ UNCHANGED <<nodevars, call>>

\* while True: display.print(num_errors + loop_start_code);
\* display.colon = False; time.sleep(loop_start_delay)
SWhile ==
    /\ s_pc = "while"
    /\ s_digits' = PrintText(s_num_errors \o s_loop_start_code)
    /\ s_frames' = <<s_num_errors \o s_loop_start_code>>
    /\ s_colon' = FALSE
    /\ s_idx' = 0
    /\ s_pc' = "for"
    /\ UNCHANGED <<numeric_codes, s_num_errors, s_code_str>>
    /\ UNCHANGED <<nodevars, call>>

\* for code in numeric_codes: code_str = ...; display.print(num_errors +
\* code_str); display.colon = False; time.sleep(delay)   (or the loop ends)
SFor ==
    /\ s_pc = "for"
    /\ IF s_idx < Len(numeric_codes)
       THEN /\ s_idx' = s_idx + 1
            /\ s_code_str' = ScriptFormat(numeric_codes[s_idx + 1])
            /\ ScriptShow(s_num_errors \o s_code_str')
            /\ s_colon' = FALSE
            /\ s_pc' = "for"
       ELSE /\ s_pc' = "while"
            /\ UNCHANGED <<s_idx, s_code_str, s_digits, s_colon, s_frames>>
    /\ UNCHANGED <<numeric_codes, s_num_errors>>
    /\ UNCHANGED <<nodevars, call>>

\* The thread of show_multiple_text_errors; nothing else runs beside it in
\* display_test.py, so each frame is one step
ScriptStep ==
    \/ SCall
    \/ SWhile
    \/ SFor

\* The list display_test.py passes to show_multiple_text_errors
TestList ==
    << <<"l", "i", "d", "a", "r", "_", "f", "a", "i", "l">>,
       <<"l", "i", "d", "a", "r", "_", "c", "o", "m">>,
       <<"g", "p", "s", "_", "f", "a", "i", "l">>,
       <<"i", "p", "_", "m", "e", "s", "h", "_", "c", "o", "m">> >>

\* Lists given both to the standalone loop and, as a message, to the node
ScriptLists == { TestList, ParseErrors(ThreeFaults),
                 ParseErrors(ManyFaults(MaxFaults)) }

\* The payload that carries the list L
RECURSIVE JoinList(_)
JoinList(L) ==
    IF L = <<>> THEN <<>>
    ELSE IF Len(L) = 1 THEN L[1]
    ELSE L[1] \o <<",">> \o JoinList(Tail(L))

\* The node, and next to it show_multiple_text_errors about to be called
\* with a list L
EquivInit ==
    /\ NodeInit
    /\ fn = "show_multiple_text_errors"
    /\ input \in ScriptLists
    /\ output = <<>>
    /\ s_pc = "call"
    /\ numeric_codes = <<>>
    /\ s_num_errors = <<>>
    /\ s_idx = 0
    /\ s_code_str = <<>>
    /\ s_digits = BlankDigits
    /\ s_colon = FALSE
    /\ s_frames = <<>>

EquivNext ==
    \/ Step({JoinList(input)})
    \/ ScriptStep

\* The node receiving L and the standalone loop over L, side by side
EquivSpec == EquivInit /\ [][EquivNext]_vars

\* ------------------------------------------------------------- properties
\* Positions of display_loop between its registry read and the next one
IdlePositions  == {"idle_print", "idle_colon", "idle_sleep"}
CyclePositions == {"start_print", "start_colon", "start_sleep", "for",
                   "err_print", "err_colon", "err_sleep"}

\* The lists a complete Replace call can have stored so far
Whole == issued \cup {<<>>}

\* C1: whatever the interleaving of the listener_callback threads and
\* display_loop, the stored list and every snapshot taken of it are exactly
\* the argument of one Replace call, or the initial empty list; never a
\* mixture of two arguments.
SnapshotIsWhole ==
    /\ active_errors \in Whole
    /\ errors \in Whole

\* C1 witness: display_loop holds a non-empty snapshot inside its critical
\* section while a writer with a different list waits for the lock.
SnapshotIsWholeSeen ==
    /\ cpc = "unlock"
    /\ errors # <<>>
    /\ \E w \in Writers : wpc[w] = "lock" /\ werrors[w] # errors

\* C2: a snapshot taken after Replace(L), with no Replace completed in
\* between, equals L element by element, in order, duplicates kept; and the
\* stored list is an object of its own, so that a change of the caller's
\* list after Replace cannot reach it.
SnapshotEqualsReplaced ==
    /\ (version > 0 /\ seenVer = version) => errors = lastArg
    /\ active_obj = OwnObject

\* C2 witness: a snapshot of a list with repeated identifiers, read after the
\* last Replace.
SnapshotEqualsReplacedSeen ==
    /\ version > 0
    /\ seenVer = version
    /\ cpc = "check"
    /\ Len(errors) > 2
    /\ errors[2] = errors[3]
    /\ errors = lastArg

\* The frames of one cycle over the snapshot L
CycleFrames(L) ==
    <<CountDigit(L) \o loop_start_code>> \o
    [i \in 1..Len(L) |-> CountDigit(L) \o FormatCode(Lookup(L[i]))]

\* C3: for a non-empty snapshot L the loop prints the loop-start frame, then
\* one frame per element of L in list order, and reads the registry again
\* only after the last of them; ["lidar_fail", "gps_fail"] gives "2---",
\* "2201", "2207".
CycleFrameSequence ==
    /\ (errors # <<>> /\ cpc \in CyclePositions) =>
           /\ Len(frames) <= Len(errors) + 1
           /\ frames = SubSeq(CycleFrames(errors), 1, Len(frames))
    /\ (errors # <<>> /\ cpc \in {"lock", "copy"}) =>
           frames = CycleFrames(errors)
    /\ (/\ cpc \in {"lock", "copy"}
        /\ errors = << <<"l", "i", "d", "a", "r", "_", "f", "a", "i", "l">>,
                       <<"g", "p", "s", "_", "f", "a", "i", "l">> >>) =>
           frames = << <<"2", "-", "-", "-">>,
                       <<"2", "2", "0", "1">>,
                       <<"2", "2", "0", "7">> >>

\* C3 witness: the cycle over ["lidar_fail", "gps_fail"] is complete and the
\* loop is about to read the registry.
CycleFrameSequenceSeen ==
    /\ cpc = "copy"
    /\ Len(errors) = 2
    /\ Len(frames) = 3
    /\ frames[3] = <<"2", "2", "0", "7">>

\* C4: with the empty list stored and read, the loop prints only "0000"
\* with the colon off, and as long as the stored list stays empty the
\* snapshot stays empty and the display stays at "0000".
IdleShowsZeros ==
    /\ [](  (errors = <<>> /\ cpc \in IdlePositions) =>
               /\ \A i \in 1..Len(frames) : frames[i] = <<"0", "0", "0", "0">>
               /\ colon = FALSE
               /\ cpc # "idle_print" => digits = <<"0", "0", "0", "0">>  )
    /\ [][  (active_errors = <<>> /\ active_errors' = <<>> /\ errors = <<>>) =>
               /\ errors' = <<>>
               /\ cpc' \notin CyclePositions
               /\ digits' # digits => digits' = <<"0", "0", "0", "0">>
               /\ colon' = FALSE  ]_vars

\* C4 witness: a non-empty list was replaced by the empty one, the loop has
\* read it and holds the "0000" frame.
IdleShowsZerosSeen ==
    /\ version = 2
    /\ lastArg = <<>>
    /\ issued # {<<>>}
    /\ seenVer = version
    /\ cpc = "idle_sleep"
    /\ digits = <<"0", "0", "0", "0">>

\* C5 as stated: a Replace that has returned is followed by the next
\* registry read within loop_start_delay + len(errors) * error_delay of
\* hold time, errors being the snapshot the loop is rendering, the empty
\* snapshot of the idle branch included.
UpdateWithinRotation ==
    pending => waited <= loop_start_delay + Len(errors) * error_delay

\* C5 amended: the bound is loop_start_delay + len(errors) * error_delay
\* for a non-empty snapshot and error_delay for the empty one.
UpdateWithinRotationOrIdleHold ==
    pending =>
        waited <= (IF errors = <<>>
                   THEN error_delay
                   ELSE loop_start_delay + Len(errors) * error_delay)

\* C5 witness: a Replace returned right after the idle read and has waited
\* the whole idle hold; the loop is about to read the registry.
UpdateWithinRotationSeen ==
    /\ pending
    /\ errors = <<>>
    /\ cpc = "lock"
    /\ waited = error_delay

\* C6: the lock is held only inside the two with blocks: never by
\* display_loop while it prints or sleeps, and by a writer only around its
\* assignment.
LockOnlyAroundCopy ==
    /\ cpc \notin {"copy", "unlock"} => lock # Cycler
    /\ lock = Cycler => cpc \in {"copy", "unlock"}
    /\ \A w \in Writers : lock = w <=> wpc[w] \in {"assign", "unlock"}

\* C6 witness: display_loop sleeps on an error frame while a writer is inside
\* its critical section.
LockOnlyAroundCopySeen ==
    /\ cpc = "err_sleep"
    /\ \E w \in Writers : lock = w /\ wpc[w] = "assign"

\* A thread is inside the copy critical section
InCritical(t) ==
    IF t = Cycler THEN cpc \in {"copy", "unlock"}
    ELSE wpc[t] \in {"assign", "unlock"}

\* C7: in whatever phase display_loop is, a writer waiting for the lock can
\* take it unless another thread is inside the copy critical section, and
\* under fair scheduling every started Replace completes.
ReplaceNeverHeldBack ==
    /\ [](\A w \in Writers :
            wpc[w] = "lock" =>
                \/ ENABLED WAcquire(w)
                \/ \E t \in (Writers \cup {Cycler}) \ {w} :
                       lock = t /\ InCritical(t))
    /\ \A w \in Writers : (wpc[w] = "lock") ~> (wpc[w] = "idle")

\* C7 witness: a writer is about to take the free lock while display_loop
\* holds an error frame.
ReplaceNeverHeldBackSeen ==
    /\ cpc = "err_sleep"
    /\ lock = Unlocked
    /\ \E w \in Writers : wpc[w] = "lock"

\* C8: the stored list is the argument of the last completed assignment,
\* every registry read returns it, and the versions display_loop observes
\* never go back.
LastReplaceWins ==
    /\ [](active_errors = lastArg)
    /\ [][  /\ seenVer' >= seenVer
            /\ (cpc = "copy" /\ cpc' = "unlock") =>
                   (errors' = lastArg /\ seenVer' = version)  ]_vars

\* C8 witness: two Replace calls with different lists have completed and
\* display_loop renders the second.
LastReplaceWinsSeen ==
    /\ version = 2
    /\ seenVer = 2
    /\ Cardinality(issued) = 2
    /\ errors = lastArg
    /\ errors # <<>>
    /\ cpc = "start_sleep"

\* C9: the colon is off in every reachable state.
ColonAlwaysOff == colon = FALSE

\* C9 witness: each kind of frame has been followed by the colon assignment;
\* here an error frame.
ColonAlwaysOffSeen ==
    /\ cpc = "err_sleep"
    /\ Len(frames) >= 2
    /\ colon = FALSE

\* The leading decimal digit of n
RECURSIVE LeadingDigit(_)
LeadingDigit(n) == IF n < 10 THEN n ELSE LeadingDigit(n \div 10)

\* C10: the count digit is the first character of the decimal length of the
\* snapshot ("1" for 10 to 19 elements), and every frame of the cycle
\* starts with that same digit.
CountDigitIsLeading ==
    (errors # <<>> /\ cpc \in CyclePositions \cup {"lock", "copy"}) =>
        /\ num_errors = <<DecimalDigits[LeadingDigit(Len(errors)) + 1]>>
        /\ Len(errors) \in 10..19 => num_errors = <<"1">>
        /\ \A i \in 1..Len(frames) :
               SubSeq(frames[i], 1, Len(frames[i]) - 3) = num_errors

\* C10 witness: a cycle over at least ten errors shows "1" on its frames.
CountDigitIsLeadingSeen ==
    /\ Len(errors) >= 10
    /\ cpc = "err_sleep"
    /\ Len(frames) = Len(errors) + 1
    /\ frames[1] = <<"1", "-", "-", "-">>
    /\ frames[Len(frames)] = <<"1", "9", "9", "9">>

\* Two characters are the same letter, whatever their case
SameLetter(a, b) ==
    \/ a = b
    \/ \E j \in 1..Len(UpperCase) : {a, b} = {UpperCase[j], LowerCase[j]}

\* Two strings are equal up to the case of their letters
SameLetters(a, b) ==
    /\ Len(a) = Len(b)
    /\ \A i \in 1..Len(a) : SameLetter(a[i], b[i])

\* C11: the lookup is case-insensitive and total: an identifier that equals
\* a key of the table up to letter case gets that key's code, every other
\* identifier gets "999"; "LIDAR_FAIL" gives "201", "unknown_x" gives "999".
LookupCaseInsensitiveTotal ==
    (fn = "lookup" /\ output # <<>>) =>
        /\ Len(output) = 1
        /\ \A k \in DOMAIN TEXT_TO_NUMERIC_ERROR :
               SameLetters(input, k) => output[1] = TEXT_TO_NUMERIC_ERROR[k]
        /\ (\A k \in DOMAIN TEXT_TO_NUMERIC_ERROR : ~SameLetters(input, k))
               => output[1] = <<"9", "9", "9">>
        /\ input = <<"L", "I", "D", "A", "R", "_", "F", "A", "I", "L">>
               => output[1] = <<"2", "0", "1">>
        /\ input = unknown_x => output[1] = <<"9", "9", "9">>

\* C11 witness: "LIDAR_FAIL" has been looked up.
LookupCaseInsensitiveTotalSeen ==
    /\ fn = "lookup"
    /\ input = <<"L", "I", "D", "A", "R", "_", "F", "A", "I", "L">>
    /\ output = << <<"2", "0", "1">> >>

\* C12: a formatted code has exactly 3 characters: a shorter code is
\* left-padded with "0" ("1" gives "001"), a longer one is cut to its last
\* three characters ("1234" gives "234"), one of three is left as it is.
FormatIsThreeChars ==
    (fn = "format" /\ output # <<>>) =>
        LET r == output[1]
            n == Len(input)
        IN  /\ Len(r) = 3
            /\ n <= 3 => \A i \in 1..3 :
                   r[i] = IF i <= 3 - n THEN "0" ELSE input[i - (3 - n)]
            /\ n >= 3 => \A i \in 1..3 : r[i] = input[n - 3 + i]
            /\ input = <<"1">> => r = <<"0", "0", "1">>
            /\ input = <<"1", "2", "3", "4">> => r = <<"2", "3", "4">>

\* C12 witness: "1234" has been formatted to its last three characters.
FormatIsThreeCharsSeen ==
    /\ fn = "format"
    /\ input = <<"1", "2", "3", "4">>
    /\ output = << <<"2", "3", "4">> >>

\* A character that belongs to no token: whitespace or the separator
Filler(c) == c \in Whitespace \/ c = ","

\* The places a..b of a payload that hold a token: no comma inside, a
\* character other than whitespace at both ends, and nothing but whitespace
\* between the token and the commas (or payload ends) around it.
TokenSpans(d) ==
    { sp \in (1..Len(d)) \X (1..Len(d)) :
        /\ sp[1] <= sp[2]
        /\ ~Filler(d[sp[1]])
        /\ ~Filler(d[sp[2]])
        /\ \A i \in sp[1]..sp[2] : d[i] # ","
        /\ \A i \in 1..(sp[1] - 1) :
               (\A j \in i..(sp[1] - 1) : d[j] # ",") => d[i] \in Whitespace
        /\ \A i \in (sp[2] + 1)..Len(d) :
               (\A j \in (sp[2] + 1)..i : d[j] # ",") => d[i] \in Whitespace }

\* C13: the list passed to Replace is the sequence of the comma-separated
\* tokens of the payload, trimmed, the empty ones dropped, in payload order,
\* repetitions and letter case kept; a payload of whitespace and commas only
\* (or an empty one) gives the empty list, the list of "no faults".
ParsedTokensInOrder ==
    (fn = "parse" /\ output # <<>>) =>
        LET toks  == output[1]
            spans == TokenSpans(input)
        IN  /\ Len(toks) = Cardinality(spans)
            /\ \A i \in 1..Len(toks) :
                   \E sp \in spans :
                       /\ Cardinality({o \in spans : o[1] < sp[1]}) = i - 1
                       /\ toks[i] = SubSeq(input, sp[1], sp[2])
            /\ (\A i \in 1..Len(input) : Filler(input[i])) <=> toks = <<>>
            /\ toks = <<>> => StoreList(<<"a">>, toks) = active_errors

\* C13 witness: a payload with an empty token, blanks around a token and a
\* repeated token differing in case only has been parsed.
ParsedTokensInOrderSeen ==
    /\ fn = "parse"
    /\ input = <<"B", ",", ",", " ", "B">>
    /\ output = << << <<"B">>, <<"B">> >> >>

\* C14: Replace([]) on an already empty stored list changes nothing that can
\* be observed: no step of the call changes the stored list, the cycler's
\* snapshot, its position or the display, and when the call returns the lock
\* is free again as it was before the call.
ReplaceEmptyIdempotent ==
    [][\A w \in Writers :
          (/\ wpc[w] # wpc'[w]
           /\ wpc[w] # "idle"
           /\ werrors[w] = <<>>
           /\ active_errors = <<>>)
          => /\ active_errors' = <<>>
             /\ active_obj' = active_obj
             /\ UNCHANGED <<cpc, cycle, screen, frames>>
             /\ wpc'[w] = "idle" => lock' = Unlocked]_vars

\* C14 witness: the first Replace was Replace([]), it has returned, and the
\* cycler has read the registry after it and rendered the Idle frame.
ReplaceEmptyIdempotentSeen ==
    /\ version = 1
    /\ lastArg = <<>>
    /\ \A w \in Writers : wpc[w] = "idle"
    /\ seenVer = 1
    /\ errors = <<>>
    /\ frames = <<NoErrorsText>>

\* C15: a Replace changes the stored list only: the step that stores the new
\* list leaves the snapshot, the position in the cycle, the count digit and
\* the display as they are; the snapshot changes only at the registry read;
\* and a cycle whose snapshot differs from the stored list goes on over its
\* snapshot, frame by frame, up to the last element before it reads again.
ReplaceChangesRegistryOnly ==
    [][/\ (version' # version \/ active_errors' # active_errors) =>
              UNCHANGED <<errors, num_errors, idx, code_str, cpc, digits,
                          colon, frames>>
       /\ errors' # errors => (cpc = "copy" /\ errors' = active_errors)
       /\ (cpc \in CyclePositions /\ version # seenVer) =>
              /\ errors' = errors
              /\ num_errors' = num_errors
              /\ cpc' \in CyclePositions \cup {"lock"}
              /\ frames' = SubSeq(CycleFrames(errors), 1, Len(frames'))
              /\ Len(frames') \in {Len(frames), Len(frames) + 1}
              /\ cpc' = "lock" => frames' = CycleFrames(errors)]_vars

\* C15 witness: Replace([]) came after the read of a list of two or more
\* elements, and the cycle has still shown the frame of its last element.
ReplaceChangesRegistryOnlySeen ==
    /\ cpc = "err_sleep"
    /\ Len(errors) >= 2
    /\ idx = Len(errors)
    /\ version > seenVer
    /\ active_errors = <<>>
    /\ frames = CycleFrames(errors)

\* C16: display_loop never ends and never stays blocked: under fair
\* scheduling, whatever Replace calls are made, it takes the lock and copies
\* the stored list again and again, after the Idle hold or after the hold of
\* the last element of a cycle.
CyclerReadsForever ==
    /\ [](cpc \in {"lock", "copy", "unlock", "check"}
                  \cup IdlePositions \cup CyclePositions)
    /\ []<><<CCopy>>_vars
    /\ [](cpc = "idle_sleep" => <>(cpc = "copy"))
    /\ []((cpc = "err_sleep" /\ idx = Len(errors)) => <>(cpc = "copy"))

\* C16 witness: after every Replace has returned and a whole cycle over the
\* last stored list has been shown, display_loop is reading the registry.
CyclerReadsForeverSeen ==
    /\ cpc = "copy"
    /\ lock = Cycler
    /\ version = MaxReplaces
    /\ seenVer = version
    /\ errors # <<>>
    /\ frames = CycleFrames(errors)

\* C17: every text display_loop hands to print has exactly 4 characters (one
\* count character followed by "---" or by a three-character code, or
\* "0000"), so that print's own rjust(4, "0")[-4:] hands it to the digits as
\* it is.
FramesAreFourChars ==
    /\ \A i \in 1..Len(frames) :
           /\ Len(frames[i]) = 4
           /\ PrintText(frames[i]) = frames[i]
           /\ \/ frames[i] = <<"0", "0", "0", "0">>
              \/ /\ Len(num_errors) = 1
                 /\ SubSeq(frames[i], 1, 1) = num_errors
                 /\ i = 1 => SubSeq(frames[i], 2, 4) = <<"-", "-", "-">>
    /\ frames # <<>> => digits = frames[Len(frames)]

\* C17 witness: the last frame of a cycle over the longest list is on the
\* digits as it was handed to print.
FramesAreFourCharsSeen ==
    /\ cpc = "err_colon"
    /\ Len(errors) = MaxFaults
    /\ idx = Len(errors)
    /\ Len(frames) = Len(errors) + 1
    /\ digits = frames[Len(frames)]
    /\ Len(digits) = 4

\* The decimal digits other than "0"
CountChars == {DecimalDigits[i] : i \in 2..Len(DecimalDigits)}

\* C18: the three kinds of frame can be told apart: display_loop prints
\* "0000" only for an empty snapshot, and for a non-empty one the loop-start
\* frame is a digit of 1..9 followed by "---" and every error frame is a
\* digit of 1..9 followed by three decimal digits.
FrameKindsDistinct ==
    [][(cpc \in {"idle_print", "start_print", "err_print"} /\ cpc' # cpc) =>
          /\ Len(digits') = 4
          /\ cpc = "idle_print" =>
                 (errors = <<>> /\ digits' = <<"0", "0", "0", "0">>)
          /\ digits' = <<"0", "0", "0", "0">> =>
                 (cpc = "idle_print" /\ errors = <<>>)
          /\ cpc = "start_print" =>
                 /\ errors # <<>>
                 /\ digits'[1] \in CountChars
                 /\ SubSeq(digits', 2, 4) = <<"-", "-", "-">>
          /\ cpc = "err_print" =>
                 /\ errors # <<>>
                 /\ digits'[1] \in CountChars
                 /\ \A j \in 2..4 :
                        \E d \in 1..Len(DecimalDigits) :
                            digits'[j] = DecimalDigits[d]]_vars

\* C18 witness: the frame of the last of the sixteen identifiers (every key
\* of the table and an unknown one) is on the display.
FrameKindsDistinctSeen ==
    /\ cpc = "err_colon"
    /\ Len(errors) = Cardinality(DOMAIN TEXT_TO_NUMERIC_ERROR) + 1
    /\ idx = Len(errors)
    /\ digits[1] = "1"
    /\ \E i \in 1..Len(frames) : frames[i] = <<"1", "9", "9", "9">>
    /\ \E i \in 1..Len(frames) : frames[i] = <<"1", "2", "0", "1">>

\* The frames of one round as display_test.py's list must give them
TestFrames ==
    << <<"4", "-", "-", "-">>, <<"4", "2", "0", "1">>, <<"4", "1", "0", "1">>,
       <<"4", "2", "0", "7">>, <<"4", "1", "0", "6">> >>

\* C19: for a non-empty list L the loop of show_multiple_text_errors(L)
\* shows, round after round, the same frames as display_loop does in a cycle
\* whose snapshot is L: as far as both have got in their round the frames
\* are equal one by one, a finished round has len(L) + 1 frames on both
\* sides, the colon is off on both, and display_test.py's list gives "4---",
\* "4201", "4101", "4207", "4106".
ScriptRendersSameFrames ==
    /\ (s_pc \in {"while", "for"} /\ errors = input) =>
           \A i \in 1..Len(frames) :
               i <= Len(s_frames) => frames[i] = s_frames[i]
    /\ (errors = input /\ cpc \in {"lock", "copy"}) =>
           Len(frames) = Len(input) + 1
    /\ (s_pc = "while" /\ s_frames # <<>>) =>
           /\ Len(s_frames) = Len(input) + 1
           /\ input = TestList => s_frames = TestFrames
    /\ (errors = TestList /\ cpc \in {"lock", "copy"}) => frames = TestFrames
    /\ s_frames # <<>> =>
           (s_digits = s_frames[Len(s_frames)] /\ s_colon = colon)

\* C19 witness: the standalone loop and display_loop have both finished a
\* round over display_test.py's list.
ScriptRendersSameFramesSeen ==
    /\ input = TestList
    /\ s_pc = "while"
    /\ s_frames = TestFrames
    /\ errors = TestList
    /\ cpc = "lock"
    /\ frames = s_frames

\* The display holds "0000" with the colon off
ShowsZeros == digits = <<"0", "0", "0", "0">> /\ colon = FALSE

\* C20: the stored list is empty when the node is created and stays so while
\* the constructor runs; whichever of the constructor's show_no_errors and
\* the display thread prints first, what is put on the display is "0000"
\* with the colon off: nothing else is printed before, the display holds it
\* from the first print on, at the latest when the constructor returns, and
\* it leaves it only when display_loop prints the loop-start frame of the
\* first non-empty list it has read.
StartupShowsZeros ==
    /\ [](version = 0 => active_errors = <<>>)
    /\ [](mainpc # "spin" =>
              /\ version = 0
              /\ nmsgs = 0
              /\ errors = <<>>
              /\ \A i \in 1..Len(frames) : frames[i] = <<"0", "0", "0", "0">>)
    /\ [](colon = FALSE)
    /\ []((mainpc # "show_no_errors" \/ frames # <<>>) =>
              digits # BlankDigits)
    /\ [](digits = BlankDigits \/ version > 0 \/ ShowsZeros)
    /\ [][(digits # BlankDigits /\ ShowsZeros /\ ~ShowsZeros') =>
              /\ cpc = "start_print"
              /\ errors # <<>>
              /\ frames = <<>>]_vars
    /\ [][(digits = BlankDigits /\ digits' # digits) => ShowsZeros']_vars

\* C20 witness: the display thread has printed "0000" before the
\* constructor's show_no_errors has, and the display shows it.
StartupShowsZerosSeen ==
    /\ mainpc = "show_no_errors"
    /\ cpc = "idle_sleep"
    /\ frames = <<NoErrorsText>>
    /\ ShowsZeros
    /\ version = 0

====
